---- MODULE Spec2Model ----
(***************************************************************************)
(* The execution engine of novrun: executeFunction with its machine-wide   *)
(* instance counter, the per-owner quota rows and the execution log.       *)
(*                                                                         *)
(* The repository holds two executors with the same admission code:        *)
(*   "worker"      src/executor.js  (Deno Worker, the one the routes use)   *)
(*   "subprocess"  src/auth.js:74-232 (Deno.run child process)             *)
(* impl says which one the process runs.                                   *)
(*                                                                         *)
(* JavaScript runs every piece of code between two awaits without          *)
(* interruption, so one action is one such piece: a database statement     *)
(* executing, or the continuation that runs when an awaited promise        *)
(* settles.                                                                *)
(***************************************************************************)
EXTENDS Integers, Sequences, FiniteSets, Bags, TLC

\* ------------------------------------------------------------- constants
MAX_EXECUTION_TIME_MS == 15000
MAX_CPU_TIME_MS == 2 * 60 * 60 * 1000
MAX_CONCURRENT_EXECUTIONS == 10
MAX_INSTANCES_PER_MACHINE == 50

\* ---------------------------------------------------------------- bounds
\* Invocations of executeFunction followed step by step.
NumInvocations == 2
\* How many of the invocations that are in flight in the initial state
\* (see otherInFlight) return while the model runs.
MaxOtherReturns == 1

Invocations == 1..NumInvocations

\* The owner with a quota row, and one that never deployed (no row).
Owner == "u1"
Stranger == "u2"
Users == {Owner, Stranger}

\* Elapsed wall-clock times (ms) an invocation can measure.
ElapsedValues == {5, 2000}

\* JavaScript's null, undefined, and a property that is not there.
Null == "<null>"
Undefined == "<undefined>"
Absent == "<absent>"
IsNullish(v) == v \in {Null, Undefined, Absent}

\* Result of `SELECT * FROM quotas WHERE user_id = ..` with no row: rows[0].
NoRow == [present |-> FALSE, cpu_time_used_ms |-> 0, concurrent_count |-> 0]
Row(cpu, conc) == [present |-> TRUE, cpu_time_used_ms |-> cpu, concurrent_count |-> conc]

\* Error messages.
MsgCapacity == "Machine at capacity: maximum 50 concurrent instances reached"
MsgNoQuota == "User quota not initialized"
MsgUserLimit == "User concurrent execution limit (10) reached"
MsgCpuExceeded == "User CPU time quota exceeded (2 hour limit)"
MsgWouldExceed == "Execution would exceed CPU time quota"
MsgTimeout == "Execution timeout: exceeded 15 second limit"
MsgWorkerError == "Worker error"
MsgDb == "database error"
MsgSpawn == "sandbox creation failed"
MsgTempFile == "temp file error"
RejectionMessages == {MsgCapacity, MsgNoQuota, MsgUserLimit, MsgCpuExceeded}

VARIABLES
  impl,                  \* which executor this process runs
  currentInstanceCount,  \* executor.js:9
  quotas,                \* table quotas: user -> row
  executions,            \* table executions: a bag of rows
  otherInFlight,         \* invocations of other users past admission, sandbox running
  ownerInFlight,         \* invocations of Owner past admission whose sandbox
                         \* keeps running while the model runs
  cpuAtStart,            \* Owner's cpu_time_used_ms in the initial state
  pc,                    \* where each followed invocation stands
  userId,                \* its userId argument
  quota,                 \* its local `quota` (the row getQuota returned)
  admitted,              \* it passed the admission checks (executor.js:48)
  sandbox,               \* its worker / child process
  timer,                 \* its deadline timer
  tempFile,              \* subprocess executor: its temp file exists
  workerUrl,             \* worker executor: the object URL of its worker script is registered
  result,                \* the object it is about to return (executor.js:225-230)
  pending,               \* subprocess executor: what the finally block hands on
  returned               \* the object the caller received, or how the promise ended

\* The control plane (main.js: src/unnamed/part_001, and the copy with
\* POST /functions/:id/run at src/database.js:275-683) and its tables.
VARIABLES
  functions,             \* table functions: id -> row
  last_reset_at,         \* column last_reset_at of table quotas: user -> time
  clock,                 \* the database's CURRENT_TIMESTAMP
  request,               \* each HTTP request: route, parameters, where its handler stands
  response,              \* each HTTP request's response
  engineCalls,           \* the calls of executeFunction the routes have made
  pure                   \* a value and what a function of utils.js made of it

\* The capture of console.log in the host (executor.js:188-198).
VARIABLES
  consoleLog,            \* the function globalThis.console.log is: 0 the original
                         \* one, p the closure invocation p installed
  originalLog,           \* each invocation's `originalLog`
  workerOutput,          \* each invocation's `output`: the lines its closure collected
  restoreTimer           \* each invocation's timer of MAX_EXECUTION_TIME_MS + 100

capture == <<consoleLog, originalLog, workerOutput, restoreTimer>>

controlPlane == <<functions, last_reset_at, clock, request, response, engineCalls, pure>>

background == <<impl, otherInFlight, ownerInFlight, cpuAtStart, controlPlane, capture>>

vars == <<impl, currentInstanceCount, quotas, executions, otherInFlight, ownerInFlight, cpuAtStart,
          pc, userId, quota, admitted, sandbox, timer, tempFile, workerUrl, result, pending,
          returned, functions, last_reset_at, clock, request, response, engineCalls, pure,
          consoleLog, originalLog, workerOutput, restoreTimer>>

\* ---------------------------------------------------------- result values
NoResult == [status |-> "none", output |-> Absent, error |-> Absent, executionTimeMs |-> 0]

\* The object literals of the early returns and of the catch block
\* (executor.js:15-19, 205-209, 236-240): no output property.
ErrorResult(msg, ms) ==
  [status |-> "error", output |-> Absent, error |-> msg, executionTimeMs |-> ms]

\* executor.js:225-230.
WorkerResult(res, ms) ==
  [status |-> res.status,
   output |-> IF res.status = "success" THEN res.output ELSE Null,
   error |-> IF res.status = "error" THEN res.error ELSE Null,
   executionTimeMs |-> ms]

\* auth.js:202-207: `!success || error ? error : null`, error being the
\* decoded stderr.
SubprocessResult(res, ms) ==
  [status |-> IF res.success THEN "success" ELSE "error",
   output |-> IF res.success THEN res.stdout ELSE Null,
   error |-> IF (~res.success) \/ res.stderr # "" THEN res.stderr ELSE Null,
   executionTimeMs |-> ms]

\* How a block ends: by returning a value or by throwing an Error. message
\* is the message of the Error thrown, "" when none was.
Return(value) == [kind |-> "return", value |-> value, message |-> ""]
Throw(msg) == [kind |-> "throw", value |-> NoResult, message |-> msg]
NoOutcome == [kind |-> "none", value |-> NoResult, message |-> ""]

\* Caught without the catch block: the Error reaches the caller.
Caught_Rethrows(outcome) == outcome

\* The outer try/catch of executeFunction (executor.js:234-241): a thrown
\* Error becomes a returned error result with executionTimeMs 0.
Caught(outcome) ==
  IF outcome.kind = "throw"
  THEN [kind |-> "return", value |-> ErrorResult(outcome.message, 0),
        message |-> outcome.message]
  ELSE outcome

\* ------------------------------------------------------------------- Init
\* The states the engine is followed from. otherInFlight + ownerInFlight
\* invocations were admitted earlier and are waiting for their sandboxes;
\* the Owner ones were admitted one after the other, so the row counts them.
Scenarios ==
  { [other |-> 0, owner |-> 0, cpu |-> 0],
    [other |-> 0, owner |-> 0, cpu |-> MAX_CPU_TIME_MS - 1000],
    [other |-> 0, owner |-> 0, cpu |-> MAX_CPU_TIME_MS],
    [other |-> MAX_INSTANCES_PER_MACHINE - 1, owner |-> 0, cpu |-> 0],
    [other |-> MAX_INSTANCES_PER_MACHINE, owner |-> 0, cpu |-> 0],
    [other |-> 0, owner |-> MAX_CONCURRENT_EXECUTIONS - 1, cpu |-> 0],
    [other |-> 0, owner |-> MAX_CONCURRENT_EXECUTIONS, cpu |-> 0],
    [other |-> 0, owner |-> 0, cpu |-> MAX_CPU_TIME_MS - 1],
    [other |-> 0, owner |-> 0, cpu |-> MAX_CPU_TIME_MS - 3000],
    [other |-> 0, owner |-> MAX_CONCURRENT_EXECUTIONS, cpu |-> MAX_CPU_TIME_MS] }

\* ------------------------------------------------- control plane values
\* HTTP requests followed, and how far the database clock runs.
NumRequests == 2
MaxClock == 2
Requests == 1..NumRequests

\* Function ids (UUIDs) and a path parameter validateUUID refuses.
FunctionIds == {"f1", "f2", "f3"}
BadId == "not-a-uuid"
\* Function names; "" is refused by validateFunctionName (utils.js:2-13).
TestFunctionName == "hello-world"
FunctionNames == {TestFunctionName, "other"}

\* A row of table functions (database.js:53-63), and rows[0] of an empty result.
NoFunction == [present |-> FALSE, id |-> Null, user_id |-> Null, name |-> Null, code |-> Null,
               enabled |-> FALSE]
FunctionRow(id, u, name, enabled) ==
  [present |-> TRUE, id |-> id, user_id |-> u, name |-> name, code |-> "code",
   enabled |-> enabled]

\* A request before it arrives, and a response not yet written.
NoRequest == [route |-> "none", pc |-> "idle", id |-> Null, user |-> Null, name |-> Null,
              enabled |-> FALSE, func |-> NoFunction]
NoResponse == [status |-> [type |-> "number", value |-> 0, integer |-> TRUE], mode |-> "none",
               body |-> [type |-> "undefined", length |-> 0, marker |-> FALSE], rows |-> {}]
NoPure == [fn |-> "none", result |-> NoResult, code |-> Null, out |-> Null]

\* The control plane before any request.
ControlPlaneIdle ==
  /\ functions = [f \in FunctionIds |-> NoFunction]
  /\ last_reset_at = [u \in Users |-> Null]
  /\ clock = 0
  /\ request = [r \in Requests |-> NoRequest]
  /\ response = [r \in Requests |-> NoResponse]
  /\ engineCalls = {}
  /\ pure = NoPure

\* No followed invocation of executeFunction was called.
InvocationsIdle ==
  /\ executions = EmptyBag
  /\ pc = [p \in Invocations |-> "idle"]
  /\ userId = [p \in Invocations |-> Owner]
  /\ quota = [p \in Invocations |-> NoRow]
  /\ admitted = [p \in Invocations |-> FALSE]
  /\ sandbox = [p \in Invocations |-> "none"]
  /\ timer = [p \in Invocations |-> "none"]
  /\ tempFile = [p \in Invocations |-> FALSE]
  /\ workerUrl = [p \in Invocations |-> FALSE]
  /\ result = [p \in Invocations |-> NoResult]
  /\ pending = [p \in Invocations |-> NoOutcome]
  /\ returned = [p \in Invocations |-> NoOutcome]
  /\ consoleLog = 0
  /\ originalLog = [p \in Invocations |-> 0]
  /\ workerOutput = [p \in Invocations |-> {}]
  /\ restoreTimer = [p \in Invocations |-> "none"]

Init ==
  /\ impl \in {"worker", "subprocess"}
  /\ \E s \in Scenarios :
       /\ otherInFlight = s.other
       /\ ownerInFlight = s.owner
       /\ cpuAtStart = s.cpu
       /\ currentInstanceCount = s.other + s.owner
       /\ quotas = [u \in Users |-> IF u = Owner THEN Row(s.cpu, s.owner) ELSE NoRow]
  /\ InvocationsIdle
  /\ ControlPlaneIdle

\* ------------------------------------------------------ database.js
\* getQuota (database.js:229-239).
getQuota(u) == quotas[u]

\* updateQuota with cpu_time_used_ms = $1 in place of
\* cpu_time_used_ms = cpu_time_used_ms + $1: the column is overwritten.
updateQuota_Overwrites(u, cpuTimeUsedMs, concurrentCount) ==
  IF quotas[u].present
  THEN [quotas EXCEPT ![u] = Row(cpuTimeUsedMs, concurrentCount)]
  ELSE quotas

\* updateQuota with the sign of the increment reversed.
updateQuota_Refunds(u, cpuTimeUsedMs, concurrentCount) ==
  IF quotas[u].present
  THEN [quotas EXCEPT ![u] = Row(quotas[u].cpu_time_used_ms - cpuTimeUsedMs, concurrentCount)]
  ELSE quotas

\* updateQuota (database.js:254-266): cpu_time_used_ms grows by the
\* argument, concurrent_count is SET to the argument; no row, no change.
updateQuota(u, cpuTimeUsedMs, concurrentCount) ==
  IF quotas[u].present
  THEN [quotas EXCEPT ![u] = Row(quotas[u].cpu_time_used_ms + cpuTimeUsedMs, concurrentCount)]
  ELSE quotas

\* logExecution writing no error text: the error column is always null.
logExecution_NoErrorText(inv, u, status, output, error, executionTimeMs) ==
  executions (+) SetToBag({[inv |-> inv, user_id |-> u, status |-> status, output |-> output,
                             error |-> Null, execution_time_ms |-> executionTimeMs]})

\* logExecution (database.js:216-227): one INSERT. inv names the
\* invocation the row belongs to (the row's own id is a fresh UUID).
logExecution(inv, u, status, output, error, executionTimeMs) ==
  executions (+) SetToBag({[inv |-> inv, user_id |-> u, status |-> status, output |-> output,
                             error |-> error, execution_time_ms |-> executionTimeMs]})

\* ------------------------------------------------- leaving executeFunction
\* The promise of executeFunction settles: a returned value fulfils it, an
\* Error no catch block took rejects it. Its locals (quota, the result
\* object, what the finally block holds) are gone then.
Settle(p, outcome) ==
  /\ pc' = [pc EXCEPT ![p] = "returned"]
  /\ returned' = [returned EXCEPT ![p] = outcome]
  /\ quota' = [quota EXCEPT ![p] = NoRow]
  /\ result' = [result EXCEPT ![p] = NoResult]
  /\ pending' = [pending EXCEPT ![p] = NoOutcome]

\* ExitOuter giving back a machine slot, as an exit from the try block does.
ExitOuter_RollsBack(p, outcome) ==
  /\ Settle(p, Caught(outcome))
  /\ currentInstanceCount' = currentInstanceCount - 1
  /\ UNCHANGED tempFile

\* An exit before or outside the inner try block: only the outer catch runs.
ExitOuter(p, outcome) ==
  /\ Settle(p, Caught(outcome))
  /\ UNCHANGED <<currentInstanceCount, tempFile>>

\* An exit from inside the inner try block: the finally block runs first
\* (executor.js:231-233; auth.js:208-215, which then awaits Deno.remove).
ExitInner(p, outcome) ==
  /\ currentInstanceCount' = currentInstanceCount - 1
  /\ IF impl = "worker"
     THEN /\ Settle(p, Caught(outcome))
          /\ UNCHANGED tempFile
     ELSE /\ pc' = [pc EXCEPT ![p] = "removeTempFile"]
          /\ pending' = [pending EXCEPT ![p] = outcome]
          /\ UNCHANGED <<returned, tempFile, quota, result>>

\* The invocation goes on to its next await.
Goto(p, next) ==
  /\ pc' = [pc EXCEPT ![p] = next]
  /\ UNCHANGED <<returned, pending>>

\* ------------------------------------------------------------ admission
\* executor.js:11-23: the machine-level check, then getQuota is called.
\* The invocations are numbered in the order of their calls.
Call(p, u) ==
  /\ pc[p] = "idle"
  /\ \A q \in Invocations : q < p => pc[q] # "idle"
  /\ userId' = [userId EXCEPT ![p] = u]
  /\ IF currentInstanceCount >= MAX_INSTANCES_PER_MACHINE
     THEN ExitOuter(p, Return(ErrorResult(MsgCapacity, 0)))
     ELSE /\ Goto(p, "getQuota")
          /\ UNCHANGED <<currentInstanceCount, tempFile, quota, result>>
  /\ UNCHANGED <<background, workerUrl, quotas, executions, admitted, sandbox, timer>>

\* The SELECT of getQuota executes (or the database fails).
GetQuota(p) ==
  /\ pc[p] = "getQuota"
  /\ \/ /\ quota' = [quota EXCEPT ![p] = getQuota(userId[p])]
        /\ Goto(p, "admission")
        /\ UNCHANGED <<currentInstanceCount, tempFile, result>>
     \/ ExitOuter(p, Throw(MsgDb))
  /\ UNCHANGED <<background, workerUrl, quotas, executions, userId, admitted, sandbox, timer>>

\* The user checks with > in place of >= in the concurrency check.
UserRejection_OffByOne(q) ==
  IF ~q.present THEN MsgNoQuota
  ELSE IF q.concurrent_count > MAX_CONCURRENT_EXECUTIONS THEN MsgUserLimit
  ELSE IF q.cpu_time_used_ms >= MAX_CPU_TIME_MS THEN MsgCpuExceeded
  ELSE ""

\* The user checks with the CPU check ahead of the concurrency check.
UserRejection_CpuFirst(q) ==
  IF ~q.present THEN MsgNoQuota
  ELSE IF q.cpu_time_used_ms >= MAX_CPU_TIME_MS THEN MsgCpuExceeded
  ELSE IF q.concurrent_count >= MAX_CONCURRENT_EXECUTIONS THEN MsgUserLimit
  ELSE ""

\* The first admission check of executor.js:24-46 that fails, or "".
UserRejection(q) ==
  IF ~q.present THEN MsgNoQuota
  ELSE IF q.concurrent_count >= MAX_CONCURRENT_EXECUTIONS THEN MsgUserLimit
  ELSE IF q.cpu_time_used_ms >= MAX_CPU_TIME_MS THEN MsgCpuExceeded
  ELSE ""

\* executor.js:24-49: the user checks on the row read, then the machine
\* slot is taken and updateQuota is called.
Admission(p) ==
  /\ pc[p] = "admission"
  /\ IF UserRejection(quota[p]) # ""
     THEN /\ ExitOuter(p, Return(ErrorResult(UserRejection(quota[p]), 0)))
          /\ UNCHANGED admitted
     ELSE /\ currentInstanceCount' = currentInstanceCount + 1
          /\ admitted' = [admitted EXCEPT ![p] = TRUE]
          /\ Goto(p, "updateQuotaAdmit")
          /\ UNCHANGED <<tempFile, quota, result>>
  /\ UNCHANGED <<background, workerUrl, quotas, executions, userId, sandbox, timer>>

\* UpdateQuotaAdmit with the failure of the UPDATE ignored: the invocation
\* goes on to its sandbox without the per-user reservation.
UpdateQuotaAdmit_FailureIgnored(p) ==
  /\ pc[p] = "updateQuotaAdmit"
  /\ \/ quotas' = updateQuota(userId[p], 0, quota[p].concurrent_count + 1)
     \/ UNCHANGED quotas
  /\ Goto(p, IF impl = "worker" THEN "startSandbox" ELSE "makeTempFile")
  /\ UNCHANGED <<currentInstanceCount, tempFile, quota, result>>
  /\ UNCHANGED <<background, workerUrl, executions, userId, admitted, sandbox, timer>>

\* executor.js:49: the UPDATE of updateQuota(userId, 0, quota.concurrent_count + 1)
\* executes (or the database fails: the statement is outside the inner try).
UpdateQuotaAdmit(p) ==
  /\ pc[p] = "updateQuotaAdmit"
  /\ \/ /\ quotas' = updateQuota(userId[p], 0, quota[p].concurrent_count + 1)
        /\ Goto(p, IF impl = "worker" THEN "startSandbox" ELSE "makeTempFile")
        /\ UNCHANGED <<currentInstanceCount, tempFile, quota, result>>
     \/ /\ ExitOuter(p, Throw(MsgDb))
        /\ UNCHANGED quotas
  /\ UNCHANGED <<background, workerUrl, executions, userId, admitted, sandbox, timer>>

\* ------------------------------------------------------ worker executor
\* What the worker posts (executor.js:103, 109-114): success, or error with
\* error.message, which is undefined when the thrown value is no Error.
\* output is what the replaced console.log collected (executor.js:146, 190-193).
WorkerMessages ==
  { [status |-> "success", output |-> "", error |-> Absent],
    [status |-> "error", output |-> Absent, error |-> "boom"],
    [status |-> "error", output |-> Absent, error |-> Undefined] }

\* The worker's "error" event (executor.js:171-179): e.message || "Worker error".
WorkerErrors ==
  { [status |-> "error", output |-> Absent, error |-> "uncaught"],
    [status |-> "error", output |-> Absent, error |-> MsgWorkerError] }

\* executor.js:51-198, up to the await: the worker script is registered
\* under an object URL (executor.js:122-123), the worker is created, the
\* deadline timer armed, the code posted. `new Worker` throwing is inside
\* the inner try. No statement of executor.js revokes workerUrl.
StartSandbox(p) ==
  /\ pc[p] = "startSandbox"
  /\ workerUrl' = [workerUrl EXCEPT ![p] = TRUE]
  /\ \/ /\ sandbox' = [sandbox EXCEPT ![p] = "running"]
        /\ timer' = [timer EXCEPT ![p] = "armed"]
        /\ Goto(p, "awaitResult")
        /\ UNCHANGED <<currentInstanceCount, tempFile, quota, result>>
     \/ /\ ExitInner(p, Throw(MsgSpawn))
        /\ UNCHANGED <<sandbox, timer>>
  /\ UNCHANGED <<background, quotas, executions, userId, admitted>>

\* executor.js:201-213 / auth.js:172-188: the elapsed time is measured; the
\* CPU-budget check returns from inside the try block, otherwise updateQuota
\* is called. res is the object about to be returned.
AfterRun(p, res) ==
  IF quota[p].cpu_time_used_ms + res.executionTimeMs > MAX_CPU_TIME_MS
  THEN /\ ExitInner(p, Return(ErrorResult(MsgWouldExceed, res.executionTimeMs)))
       /\ UNCHANGED quotas
  ELSE /\ result' = [result EXCEPT ![p] = res]
       /\ Goto(p, "updateQuotaSettle")
       /\ UNCHANGED <<currentInstanceCount, tempFile, quota, quotas>>

\* executor.js:149-179: a message or error event of the worker: the timer is
\* cleared, the worker terminated, the promise resolved; its continuation
\* runs in the same turn of the event loop.
WorkerReports(p, data, ms) ==
  /\ pc[p] = "awaitResult"
  /\ impl = "worker"
  /\ sandbox[p] = "running"
  /\ timer' = [timer EXCEPT ![p] = "cleared"]
  /\ sandbox' = [sandbox EXCEPT ![p] = "terminated"]
  /\ AfterRun(p, WorkerResult(data, ms))
  /\ UNCHANGED <<background, workerUrl, executions, userId, admitted>>

\* executor.js:140-142: the deadline timer fires: worker.terminate(), and
\* nothing else; the promise awaited at executor.js:145 is resolved only by
\* the two event listeners.
WorkerTimeout(p) ==
  /\ pc[p] = "awaitResult"
  /\ impl = "worker"
  /\ timer[p] = "armed"
  /\ timer' = [timer EXCEPT ![p] = "fired"]
  /\ sandbox' = [sandbox EXCEPT ![p] = "terminated"]
  /\ UNCHANGED <<background, workerUrl, currentInstanceCount, quotas, executions, pc, userId, quota,
                 admitted, tempFile, result, pending, returned>>

\* -------------------------------------------------- subprocess executor
\* What the child process leaves: exit status, stdout, stderr (auth.js:160-170).
ProcessExits ==
  { [success |-> TRUE, stdout |-> "out", stderr |-> ""],
    [success |-> TRUE, stdout |-> "out", stderr |-> "warning"],
    [success |-> FALSE, stdout |-> "", stderr |-> "boom"],
    [success |-> FALSE, stdout |-> "", stderr |-> ""] }

\* auth.js:124-125: Deno.makeTempFile, awaited before the inner try block.
MakeTempFile(p) ==
  /\ pc[p] = "makeTempFile"
  /\ \/ /\ tempFile' = [tempFile EXCEPT ![p] = TRUE]
        /\ Goto(p, "writeTextFile")
        /\ UNCHANGED <<currentInstanceCount, quota, result>>
     \/ ExitOuter(p, Throw(MsgTempFile))
  /\ UNCHANGED <<background, workerUrl, quotas, executions, userId, admitted, sandbox, timer>>

\* auth.js:127-157: the wrapped code is written, the child process started
\* and the deadline timer armed.
WriteTextFile(p) ==
  /\ pc[p] = "writeTextFile"
  /\ \/ /\ sandbox' = [sandbox EXCEPT ![p] = "running"]
        /\ timer' = [timer EXCEPT ![p] = "armed"]
        /\ Goto(p, "awaitResult")
        /\ UNCHANGED <<currentInstanceCount, tempFile, quota, result>>
     \/ /\ \E msg \in {MsgTempFile, MsgSpawn} : ExitInner(p, Throw(msg))
        /\ UNCHANGED <<sandbox, timer>>
  /\ UNCHANGED <<background, workerUrl, quotas, executions, userId, admitted>>

\* auth.js:160-182: the child exits and its pipes are read; on the
\* CPU-budget return the handle is closed first.
ProcessCompletes(p, out, ms) ==
  /\ pc[p] = "awaitResult"
  /\ impl = "subprocess"
  /\ sandbox[p] = "running"
  /\ sandbox' = [sandbox EXCEPT ![p] =
        IF quota[p].cpu_time_used_ms + ms > MAX_CPU_TIME_MS THEN "closed" ELSE "exited"]
  /\ AfterRun(p, SubprocessResult(out, ms))
  /\ UNCHANGED <<background, workerUrl, executions, userId, admitted, timer>>

\* auth.js:153-170: the deadline timer fires first: the race rejects with
\* the timeout Error, which leaves the try block. The child is not touched.
ProcessTimeout(p) ==
  /\ pc[p] = "awaitResult"
  /\ impl = "subprocess"
  /\ timer[p] = "armed"
  /\ timer' = [timer EXCEPT ![p] = "fired"]
  /\ ExitInner(p, Throw(MsgTimeout))
  /\ UNCHANGED <<background, workerUrl, quotas, executions, userId, admitted, sandbox>>

\* auth.js:210-214: Deno.remove in the finally block, its failure ignored;
\* then what left the try block goes on to the caller or the outer catch.
RemoveTempFile(p) ==
  /\ pc[p] = "removeTempFile"
  /\ \E removed \in BOOLEAN :
       tempFile' = [tempFile EXCEPT ![p] = IF removed THEN FALSE ELSE tempFile[p]]
  /\ Settle(p, Caught(pending[p]))
  /\ UNCHANGED <<background, workerUrl, currentInstanceCount, quotas, executions, userId, admitted,
                 sandbox, timer>>

\* ------------------------------------------------------------ settlement
\* executor.js:213: the UPDATE of updateQuota(userId, executionTimeMs,
\* quota.concurrent_count - 1) executes (or the database fails).
UpdateQuotaSettle(p) ==
  /\ pc[p] = "updateQuotaSettle"
  /\ \/ /\ quotas' = updateQuota(userId[p], result[p].executionTimeMs,
                                 quota[p].concurrent_count - 1)
        /\ Goto(p, "logExecution")
        /\ UNCHANGED <<currentInstanceCount, tempFile, quota, result>>
     \/ /\ ExitInner(p, Throw(MsgDb))
        /\ UNCHANGED quotas
  /\ UNCHANGED <<background, workerUrl, executions, userId, admitted, sandbox, timer>>

\* executor.js:216-233: the INSERT of logExecution executes and the result
\* is returned (auth.js:200 closes the child's handle first), or the
\* database fails.
LogExecution(p) ==
  /\ pc[p] = "logExecution"
  /\ \/ /\ executions' = logExecution(p, userId[p], result[p].status, result[p].output,
                                      result[p].error, result[p].executionTimeMs)
        /\ sandbox' = [sandbox EXCEPT ![p] = IF impl = "subprocess" THEN "closed" ELSE @]
        /\ ExitInner(p, Return(result[p]))
     \/ /\ ExitInner(p, Throw(MsgDb))
        /\ UNCHANGED <<executions, sandbox>>
  /\ UNCHANGED <<background, workerUrl, quotas, userId, admitted, timer>>

\* ---------------------------------------------------- other invocations
\* One of the invocations that were in flight from the start leaves its
\* try block: the finally block gives its machine slot back (executor.js:231-233).
OtherReturns ==
  /\ otherInFlight > MAX_INSTANCES_PER_MACHINE - MaxOtherReturns
  /\ otherInFlight' = otherInFlight - 1
  /\ currentInstanceCount' = currentInstanceCount - 1
  /\ UNCHANGED <<impl, quotas, executions, ownerInFlight, cpuAtStart, pc, userId, quota,
                 admitted, sandbox, timer, tempFile, workerUrl, result, pending, returned,
                 controlPlane, capture>>

\* Every step of invocation p.
Step(p) ==
  \/ \E u \in Users : Call(p, u)
  \/ GetQuota(p)
  \/ Admission(p)
  \/ UpdateQuotaAdmit(p)
  \/ StartSandbox(p)
  \/ \E data \in WorkerMessages \cup WorkerErrors, ms \in ElapsedValues : WorkerReports(p, data, ms)
  \/ WorkerTimeout(p)
  \/ MakeTempFile(p)
  \/ WriteTextFile(p)
  \/ \E out \in ProcessExits, ms \in ElapsedValues : ProcessCompletes(p, out, ms)
  \/ ProcessTimeout(p)
  \/ RemoveTempFile(p)
  \/ UpdateQuotaSettle(p)
  \/ LogExecution(p)

Next ==
  \/ \E p \in Invocations : Step(p)
  \/ OtherReturns

Spec == Init /\ [][Next]_vars

\* The event loop runs every continuation that is ready, the database
\* answers every statement, every armed timer fires or is cleared and every
\* sandbox reports or meets its deadline: no invocation that can take a
\* step waits forever.
FairSpec == Spec /\ \A p \in Invocations : WF_vars(Step(p))

\* =========================================================== utils.js
\* utils.js:19 and utils.js:96-97.
CodeSizeLimit == 1000000
OutputSizeLimit == 1000000
\* "\n... (output truncated)".length
TruncationMarkerLength == 23

\* A JavaScript value as far as the control plane looks at it: its type, its
\* length when it is a string, what JSON.parse makes of it, and whether it
\* ends with the truncation marker.
\* What JSON.parse yields: a SyntaxError ("invalid"), null, a number, or an
\* object with its status and body properties.
StatusAbsent == [type |-> "undefined", value |-> 0, integer |-> TRUE]
StatusString == [type |-> "string", value |-> 200, integer |-> TRUE]
StatusNumber(v, int) == [type |-> "number", value |-> v, integer |-> int]
BodyAbsent == [type |-> "undefined", length |-> 0, json |-> FALSE]
BodyString(len, json) == [type |-> "string", length |-> len, json |-> json]
NotJson == [kind |-> "invalid", status |-> StatusAbsent, body |-> BodyAbsent]
JsonNull == [kind |-> "null", status |-> StatusAbsent, body |-> BodyAbsent]
JsonNumber == [kind |-> "number", status |-> StatusAbsent, body |-> BodyAbsent]
JsonObject(status, body) == [kind |-> "object", status |-> status, body |-> body]

JsNull == [type |-> "null", length |-> 0, parsed |-> NotJson, marker |-> FALSE]
JsUndefined == [type |-> "undefined", length |-> 0, parsed |-> NotJson, marker |-> FALSE]
JsNumber == [type |-> "number", length |-> 0, parsed |-> NotJson, marker |-> FALSE]
Str(len, parsed) == [type |-> "string", length |-> len, parsed |-> parsed, marker |-> FALSE]
\* !v for the values above (a number here is never 0).
Falsy(v) == v.type \in {"null", "undefined"} \/ (v.type = "string" /\ v.length = 0)

\* validateCode with the limit at 1 MiB = 1024 * 1024 characters.
validateCode_MiB(code) ==
  IF Falsy(code) \/ code.type # "string"
  THEN [valid |-> FALSE, error |-> "Code is required"]
  ELSE IF code.length > 1024 * 1024
       THEN [valid |-> FALSE, error |-> "Code exceeds maximum size (1MB)"]
       ELSE [valid |-> TRUE, error |-> ""]

\* validateCode (utils.js:15-23).
validateCode(code) ==
  IF Falsy(code) \/ code.type # "string"
  THEN [valid |-> FALSE, error |-> "Code is required"]
  ELSE IF code.length > CodeSizeLimit
       THEN [valid |-> FALSE, error |-> "Code exceeds maximum size (1MB)"]
       ELSE [valid |-> TRUE, error |-> ""]

\* sanitizeOutput (utils.js:93-100): substring(0, 1000000) + the marker.
sanitizeOutput(output) ==
  IF Falsy(output) THEN output
  ELSE IF output.type = "string" /\ output.length > OutputSizeLimit
       THEN [type |-> "string", length |-> OutputSizeLimit + TruncationMarkerLength,
             parsed |-> NotJson, marker |-> TRUE]
       ELSE output

\* The result object of executeFunction as a route receives it.
RouteResult(status, output, error) ==
  [status |-> status, output |-> output, error |-> error]

\* An HTTP response: status code, how the body was made, and the textual
\* payload it carries.
HttpStatus(n) == StatusNumber(n, TRUE)
Payload(type, length, marker) == [type |-> type, length |-> length, marker |-> marker]
\* rows: the function rows the body is made of.
Response(status, mode, body) == [status |-> status, mode |-> mode, body |-> body, rows |-> {}]

\* GET /run/:id after executeFunction returned (part_001:257-304; GET /test
\* has the same code at part_001:95-130): an output that parses to an object
\* with a status of type number is an HTTP envelope, its status, headers and
\* body are forwarded; anything else goes out in the default format, the
\* output through sanitizeOutput.
RunResponse(res) ==
  LET httpResponse == res.output.parsed
  IN IF /\ res.status = "success"
        /\ ~Falsy(res.output)
        /\ httpResponse.kind = "object"
        /\ httpResponse.status.type = "number"
     THEN Response(httpResponse.status, "envelope",
                   Payload(httpResponse.body.type, httpResponse.body.length, FALSE))
     ELSE LET output == sanitizeOutput(res.output)
          IN Response(HttpStatus(200), "raw", Payload(output.type, output.length, output.marker))

\* ======================================================= control plane
\* ------------------------------------------- database.js, table functions
\* getFunctionById (database.js:165-175).
getFunctionById(id) == IF functions[id].present THEN functions[id] ELSE NoFunction

\* getFunction (database.js:153-163): the row only if it is the user's.
getFunction(id, u) ==
  IF functions[id].present /\ functions[id].user_id = u THEN functions[id] ELSE NoFunction

\* getFunctionByName (worker.js:288-298): `WHERE name = .. LIMIT 1` with no
\* ORDER BY and no user: any one of the rows with that name.
getFunctionByName(name) ==
  LET rows == {functions[f] : f \in {g \in FunctionIds : functions[g].present
                                                        /\ functions[g].name = name}}
  IN IF rows = {} THEN {NoFunction} ELSE rows

\* createFunction (database.js:138-151): a row with a fresh id, enabled by
\* the column default.
createFunction(id, u, name) == [functions EXCEPT ![id] = FunctionRow(id, u, name, TRUE)]

\* updateFunctionStatus (utils.js:291-303).
updateFunctionStatus(id, u, enabled) ==
  IF functions[id].present /\ functions[id].user_id = u
  THEN [functions EXCEPT ![id].enabled = enabled]
  ELSE functions

\* deleteFunction without `AND user_id = ..` in its WHERE clause.
deleteFunction_AnyUser(id, u) ==
  IF functions[id].present THEN [functions EXCEPT ![id].present = FALSE] ELSE functions

\* deleteFunction (database.js:204-214): DELETE .. WHERE id = .. AND user_id = ..
\* A row that was deleted is kept with present = FALSE: its id, a UUID, is
\* not given out again.
deleteFunction(id, u) ==
  IF functions[id].present /\ functions[id].user_id = u
  THEN [functions EXCEPT ![id].present = FALSE]
  ELSE functions

\* updateFunctionCode (database.js:190-202): UPDATE .. SET code = ..
\* WHERE id = .. AND user_id = ..
updateFunctionCode(id, u, code) ==
  IF functions[id].present /\ functions[id].user_id = u
  THEN [functions EXCEPT ![id].code = code]
  ELSE functions

\* listFunctions (database.js:177-188): the rows WHERE user_id = ..
listFunctions(u) ==
  {functions[f] : f \in {g \in FunctionIds : functions[g].present /\ functions[g].user_id = u}}

\* RETURNING * of an UPDATE .. WHERE id = .. AND user_id = ..: the row
\* as the statement left it, table being the table after it.
Returning(id, u, table) ==
  IF functions[id].present /\ functions[id].user_id = u THEN {table[id]} ELSE {}

\* initializeQuota with ON CONFLICT (user_id) DO UPDATE resetting the row.
initializeQuota_Upserts(u) ==
  [quotas |-> [quotas EXCEPT ![u] = Row(0, 0)],
   last_reset_at |-> [last_reset_at EXCEPT ![u] = clock]]

\* initializeQuota (database.js:241-252): INSERT .. ON CONFLICT (user_id) DO
\* NOTHING; the columns take their defaults 0, 0, CURRENT_TIMESTAMP.
initializeQuota(u) ==
  IF quotas[u].present
  THEN [quotas |-> quotas, last_reset_at |-> last_reset_at]
  ELSE [quotas |-> [quotas EXCEPT ![u] = Row(0, 0)],
        last_reset_at |-> [last_reset_at EXCEPT ![u] = clock]]

\* The clock counts in units of 24 hours: INTERVAL '24 hours' (utils.js:376).
ResetInterval == 1

\* resetDailyQuotas without its WHERE clause: every row is reset.
resetDailyQuotas_EveryRow ==
  [quotas |-> [u \in Users |-> IF quotas[u].present
                               THEN Row(0, quotas[u].concurrent_count) ELSE quotas[u]],
   last_reset_at |-> [u \in Users |-> IF quotas[u].present THEN clock ELSE last_reset_at[u]]]

\* resetDailyQuotas (utils.js:369-381): one UPDATE of the rows WHERE
\* last_reset_at < CURRENT_TIMESTAMP - INTERVAL '24 hours'.
resetDailyQuotas ==
  LET due == {u \in Users : quotas[u].present /\ last_reset_at[u] < clock - ResetInterval}
  IN [quotas |-> [u \in Users |-> IF u \in due
                                  THEN Row(0, quotas[u].concurrent_count) ELSE quotas[u]],
      last_reset_at |-> [u \in Users |-> IF u \in due THEN clock ELSE last_reset_at[u]]]

\* The copies of the database module the repository holds: createSchema of
\* src/database.js:37-103 (and src/worker.js) is CREATE TABLE IF NOT EXISTS,
\* createSchema of src/utils.js:129-206 is DROP TABLE IF EXISTS .. CASCADE
\* for the four tables and then CREATE TABLE.
SchemaModules == {"database.js", "utils.js"}

\* createSchema, as initDatabase calls it when the process starts: the
\* tables after it.
createSchema(module) ==
  IF module = "utils.js"
  THEN [functions |-> [f \in FunctionIds |-> [functions[f] EXCEPT !.present = FALSE]],
        quotas |-> [u \in Users |-> NoRow],
        last_reset_at |-> [u \in Users |-> Null]]
  ELSE [functions |-> functions, quotas |-> quotas, last_reset_at |-> last_reset_at]

\* validateUUID (utils.js:68-71) and validateFunctionName (utils.js:2-13) on
\* the values the model uses.
validateUUID(id) == id \in FunctionIds
validateFunctionName(name) == name \in FunctionNames

\* ---------------------------------------------------------------- inputs
\* Results of executeFunction the routes are followed with: a raw output, an
\* HTTP envelope, an error.
RouteResults ==
  { RouteResult("success", Str(11, NotJson), JsNull),
    RouteResult("success", Str(40, JsonObject(StatusNumber(200, TRUE), BodyString(5, FALSE))),
                JsNull),
    RouteResult("error", JsNull, Str(4, NotJson)) }
\* Bodies of POST /deploy: code of a valid size, code above the limit, none.
DeployCodes == {Str(10, NotJson), Str(CodeSizeLimit + 1, NotJson), JsUndefined}

\* ------------------------------------------------------------ the routes
\* The engine's variables stay as they are: the routes see executeFunction
\* as a call that returns a result.
engine == <<impl, currentInstanceCount, executions, otherInFlight, ownerInFlight, cpuAtStart,
            pc, userId, quota, admitted, sandbox, timer, tempFile, workerUrl, result, pending,
            returned, capture>>

\* The handler writes its response and ends.
Respond(r, resp) ==
  /\ response' = [response EXCEPT ![r] = resp]
  /\ request' = [request EXCEPT ![r].pc = "done"]

ErrorResponse(code) == Response(HttpStatus(code), "error", Payload("string", 0, FALSE))

\* The handler calls executeFunction(id, u, ..): the enabled flag of the
\* row the handler read, and what is in the function's row at that moment,
\* are noted with the call.
CallEngine(r, id, u) ==
  /\ engineCalls' = engineCalls \cup
       {[route |-> request[r].route, functionId |-> id, userId |-> u,
         enabledRead |-> request[r].func.enabled,
         author |-> functions[id].user_id, enabled |-> functions[id].enabled]}
  /\ request' = [request EXCEPT ![r].pc = "executeFunction", ![r].user = u]
  /\ UNCHANGED response

\* A request arrives; the requests are numbered in the order of arrival.
Arrives(r) ==
  /\ request[r].pc = "idle"
  /\ \A q \in Requests : q < r => request[q].pc # "idle"
Begin(r, req, resp) ==
  /\ request' = [request EXCEPT ![r] = req]
  /\ response' = [response EXCEPT ![r] = resp]

\* What executeFunction(.., u, ..) has done to u's quota row by the time it
\* returns: nothing (a rejection), or the settlement of a run
\* (executor.js:49, 213).
EngineSettles(u) ==
  \/ UNCHANGED quotas
  \/ \E ms \in ElapsedValues :
       quotas' = updateQuota(u, ms, quotas[u].concurrent_count - 1)

\* GET /run/:id (part_001:224-234): validateUUID, then the SELECT of
\* getFunctionById executes.
RunSelect(r, id) ==
  /\ Arrives(r)
  /\ IF ~validateUUID(id)
     THEN Begin(r, [NoRequest EXCEPT !.route = "run", !.id = id, !.pc = "done"],
                ErrorResponse(400))
     ELSE Begin(r, [NoRequest EXCEPT !.route = "run", !.id = id, !.pc = "afterSelect",
                                     !.func = getFunctionById(id)],
                NoResponse)
  /\ UNCHANGED <<engine, quotas, functions, last_reset_at, clock, engineCalls, pure>>

\* RunContinue calling executeFunction with the user the test function is
\* seeded for, whatever the row says.
RunContinue_ChargesSystemUser(r) ==
  /\ request[r].route = "run" /\ request[r].pc = "afterSelect"
  /\ LET func == request[r].func
     IN IF ~func.present \/ ~func.enabled
        THEN Respond(r, ErrorResponse(404)) /\ UNCHANGED engineCalls
        ELSE \/ Respond(r, ErrorResponse(400)) /\ UNCHANGED engineCalls
             \/ CallEngine(r, request[r].id, Owner)
  /\ UNCHANGED <<engine, quotas, functions, last_reset_at, clock, pure>>

\* GET /run/:id (part_001:236-255): the checks on the row read, the input
\* parameter parsed, executeFunction called with the row's user_id.
RunContinue(r) ==
  /\ request[r].route = "run" /\ request[r].pc = "afterSelect"
  /\ LET func == request[r].func
     IN IF ~func.present \/ ~func.enabled
        THEN Respond(r, ErrorResponse(404)) /\ UNCHANGED engineCalls
        ELSE \/ Respond(r, ErrorResponse(400)) /\ UNCHANGED engineCalls
             \/ CallEngine(r, request[r].id, func.user_id)
  /\ UNCHANGED <<engine, quotas, functions, last_reset_at, clock, pure>>

\* GET /test (part_001:69-72): the SELECT of getFunctionByName executes.
TestSelect(r) ==
  /\ Arrives(r)
  /\ \E func \in getFunctionByName(TestFunctionName) :
       Begin(r, [NoRequest EXCEPT !.route = "test", !.pc = "afterSelect", !.func = func],
             NoResponse)
  /\ UNCHANGED <<engine, quotas, functions, last_reset_at, clock, engineCalls, pure>>

\* GET /test (part_001:74-93): 404 without a row, the input parameter
\* parsed, executeFunction called with the row's id and user_id.
TestContinue(r) ==
  /\ request[r].route = "test" /\ request[r].pc = "afterSelect"
  /\ LET func == request[r].func
     IN IF ~func.present
        THEN Respond(r, ErrorResponse(404)) /\ UNCHANGED engineCalls
        ELSE \/ Respond(r, ErrorResponse(400)) /\ UNCHANGED engineCalls
             \/ CallEngine(r, func.id, func.user_id)
  /\ UNCHANGED <<engine, quotas, functions, last_reset_at, clock, pure>>

\* GET /run/:id and GET /test after executeFunction returned
\* (part_001:257-304, 95-130).
RunResponds(r) ==
  /\ request[r].route \in {"run", "test"} /\ request[r].pc = "executeFunction"
  /\ \E res \in RouteResults : Respond(r, RunResponse(res))
  /\ EngineSettles(request[r].user)
  /\ UNCHANGED <<engine, functions, last_reset_at, clock, engineCalls, pure>>

\* POST /functions/:id/run (database.js:546-578): validateUUID, the caller
\* authenticated (getAuthUser), then the SELECT of getFunction executes.
FunctionsRunSelect(r, id, caller) ==
  /\ Arrives(r)
  /\ LET req == [NoRequest EXCEPT !.route = "functionsRun", !.id = id, !.user = caller]
     IN IF ~validateUUID(id)
        THEN Begin(r, [req EXCEPT !.pc = "done"], ErrorResponse(400))
        ELSE IF caller = Null
             THEN Begin(r, [req EXCEPT !.pc = "done"], ErrorResponse(401))
             ELSE Begin(r, [req EXCEPT !.pc = "afterSelect", !.func = getFunction(id, caller)],
                        NoResponse)
  /\ UNCHANGED <<engine, quotas, functions, last_reset_at, clock, engineCalls, pure>>

\* POST /functions/:id/run (database.js:579-592): 404 without a row, 403
\* when it is disabled, executeFunction called with the caller's id.
FunctionsRunContinue(r) ==
  /\ request[r].route = "functionsRun" /\ request[r].pc = "afterSelect"
  /\ LET func == request[r].func
     IN IF ~func.present THEN Respond(r, ErrorResponse(404)) /\ UNCHANGED engineCalls
        ELSE IF ~func.enabled THEN Respond(r, ErrorResponse(403)) /\ UNCHANGED engineCalls
        ELSE CallEngine(r, request[r].id, request[r].user)
  /\ UNCHANGED <<engine, quotas, functions, last_reset_at, clock, pure>>

\* POST /functions/:id/run after executeFunction returned (database.js:594-608).
FunctionsRunResponds(r) ==
  /\ request[r].route = "functionsRun" /\ request[r].pc = "executeFunction"
  /\ \E res \in RouteResults :
       IF res.status = "error"
       THEN Respond(r, Response(HttpStatus(400), "error",
                                Payload(res.error.type, res.error.length, FALSE)))
       ELSE LET output == sanitizeOutput(res.output)
            IN Respond(r, Response(HttpStatus(200), "raw",
                                   Payload(output.type, output.length, output.marker)))
  /\ EngineSettles(request[r].user)
  /\ UNCHANGED <<engine, functions, last_reset_at, clock, engineCalls, pure>>

\* POST /deploy (part_001:138-157): the name and the code validated, then
\* the INSERT of createFunction executes; UNIQUE(user_id, name) makes it
\* throw, which the error middleware answers with 500 (part_001:46-54).
DeployInsert(r, u, name, code) ==
  /\ Arrives(r)
  /\ \E free \in FunctionIds : functions[free] = NoFunction
  /\ LET id == CHOOSE g \in FunctionIds : functions[g] = NoFunction
         req == [NoRequest EXCEPT !.route = "deploy", !.user = u, !.name = name]
         taken == \E g \in FunctionIds : /\ functions[g].present
                                         /\ functions[g].user_id = u
                                         /\ functions[g].name = name
     IN IF ~validateFunctionName(name) \/ ~validateCode(code).valid
        THEN Begin(r, [req EXCEPT !.pc = "done"], ErrorResponse(400))
             /\ UNCHANGED functions
        ELSE IF taken
             THEN Begin(r, [req EXCEPT !.pc = "done"], ErrorResponse(500))
                  /\ UNCHANGED functions
             ELSE /\ functions' = createFunction(id, u, name)
                  /\ Begin(r, [req EXCEPT !.pc = "initializeQuota", !.id = id], NoResponse)
  /\ UNCHANGED <<engine, quotas, last_reset_at, clock, engineCalls, pure>>

\* POST /deploy (part_001:158-165): the INSERT of initializeQuota executes,
\* then 201.
DeployInitializeQuota(r) ==
  /\ request[r].route = "deploy" /\ request[r].pc = "initializeQuota"
  /\ LET after == initializeQuota(request[r].user)
     IN /\ quotas' = after.quotas
        /\ last_reset_at' = after.last_reset_at
  /\ Respond(r, Response(HttpStatus(201), "json", Payload("string", 0, FALSE)))
  /\ UNCHANGED <<engine, functions, clock, engineCalls, pure>>

\* PUT /functions/:id/status (part_001:210-215): the UPDATE of
\* updateFunctionStatus executes for the authenticated user.
StatusUpdate(r, id, u, enabled) ==
  /\ Arrives(r)
  /\ functions' = updateFunctionStatus(id, u, enabled)
  /\ Begin(r, [NoRequest EXCEPT !.route = "status", !.id = id, !.user = u,
                                !.enabled = enabled, !.pc = "done"],
           [Response(HttpStatus(200), "json", Payload("string", 0, FALSE))
              EXCEPT !.rows = Returning(id, u, functions')])
  /\ UNCHANGED <<engine, quotas, last_reset_at, clock, engineCalls, pure>>

\* GET /functions (part_001:169-176): the SELECT of listFunctions executes
\* for the authenticated user.
FunctionsList(r, u) ==
  /\ Arrives(r)
  /\ Begin(r, [NoRequest EXCEPT !.route = "list", !.user = u, !.pc = "done"],
           [Response(HttpStatus(200), "json", Payload("string", 0, FALSE))
              EXCEPT !.rows = listFunctions(u)])
  /\ UNCHANGED <<engine, quotas, functions, last_reset_at, clock, engineCalls, pure>>

\* GET /functions/:id (part_001:179-197): validateUUID, the SELECT of
\* getFunction executes, 404 without a row.
FunctionGet(r, id, u) ==
  /\ Arrives(r)
  /\ LET req == [NoRequest EXCEPT !.route = "get", !.id = id, !.user = u, !.pc = "done"]
     IN IF ~validateUUID(id) THEN Begin(r, req, ErrorResponse(400))
        ELSE LET func == getFunction(id, u)
             IN IF ~func.present THEN Begin(r, req, ErrorResponse(404))
                ELSE Begin(r, req, [Response(HttpStatus(200), "json", Payload("string", 0, FALSE))
                                      EXCEPT !.rows = {func}])
  /\ UNCHANGED <<engine, quotas, functions, last_reset_at, clock, engineCalls, pure>>

\* PUT /functions/:id/code (part_001:200-207): the UPDATE of
\* updateFunctionCode executes for the authenticated user.
CodeUpdate(r, id, u) ==
  /\ Arrives(r)
  /\ functions' = updateFunctionCode(id, u, "new code")
  /\ Begin(r, [NoRequest EXCEPT !.route = "code", !.id = id, !.user = u, !.pc = "done"],
           [Response(HttpStatus(200), "json", Payload("string", 0, FALSE))
              EXCEPT !.rows = Returning(id, u, functions')])
  /\ UNCHANGED <<engine, quotas, last_reset_at, clock, engineCalls, pure>>

\* DELETE /functions/:id (part_001:218-221): the DELETE of deleteFunction
\* executes for the authenticated user; 204 in every case.
FunctionDelete(r, id, u) ==
  /\ Arrives(r)
  /\ functions' = deleteFunction(id, u)
  /\ Begin(r, [NoRequest EXCEPT !.route = "delete", !.id = id, !.user = u, !.pc = "done"],
           Response(HttpStatus(204), "none", Payload("undefined", 0, FALSE)))
  /\ UNCHANGED <<engine, quotas, last_reset_at, clock, engineCalls, pure>>

\* POST /admin/reset-quotas (database.js:631-646): 401 without the admin
\* key; otherwise the UPDATE of resetDailyQuotas executes, or the database
\* fails and the handler answers 500.
AdminResetQuotas(r, keyMatches) ==
  /\ Arrives(r)
  /\ LET req == [NoRequest EXCEPT !.route = "resetQuotas", !.pc = "done"]
     IN IF ~keyMatches
        THEN /\ Begin(r, req, ErrorResponse(401))
             /\ UNCHANGED <<quotas, last_reset_at>>
        ELSE \/ /\ quotas' = resetDailyQuotas.quotas
                /\ last_reset_at' = resetDailyQuotas.last_reset_at
                /\ Begin(r, req, Response(HttpStatus(200), "json", Payload("string", 0, FALSE)))
             \/ /\ Begin(r, req, ErrorResponse(500))
                /\ UNCHANGED <<quotas, last_reset_at>>
  /\ UNCHANGED <<engine, functions, clock, engineCalls, pure>>

\* The control plane is stopped between two requests and started again
\* (part_001:325-337): initDatabase runs createSchema of the database
\* module the process was built with. The restart is numbered with the
\* requests, in the order of the events.
Restart(r, module) ==
  /\ Arrives(r)
  /\ \A q \in Requests : request[q].pc \in {"idle", "done"}
  /\ LET after == createSchema(module)
     IN /\ functions' = after.functions
        /\ quotas' = after.quotas
        /\ last_reset_at' = after.last_reset_at
  /\ Begin(r, [NoRequest EXCEPT !.route = "restart", !.name = module, !.pc = "done"], NoResponse)
  /\ UNCHANGED <<engine, clock, engineCalls, pure>>

\* Time passes in the database.
Tick ==
  /\ clock < MaxClock
  /\ clock' = clock + 1
  /\ UNCHANGED <<engine, quotas, functions, last_reset_at, request, response, engineCalls, pure>>

\* The engine and the tables at rest.
EngineStopped ==
  /\ impl = "worker"
  /\ otherInFlight = 0 /\ ownerInFlight = 0 /\ cpuAtStart = 0 /\ currentInstanceCount = 0
  /\ InvocationsIdle
  /\ quotas = [u \in Users |-> IF u = Owner THEN Row(0, 0) ELSE NoRow]

\* The control plane as started by main.js: the test function hello-world
\* and its owner's quota row are there (worker.js:447-479), nothing runs.
RouteInit ==
  /\ EngineStopped
  /\ functions = [f \in FunctionIds |->
                    IF f = "f1" THEN FunctionRow(f, Owner, TestFunctionName, TRUE)
                    ELSE NoFunction]
  /\ last_reset_at = [u \in Users |-> IF u = Owner THEN 0 ELSE Null]
  /\ clock = 0
  /\ request = [r \in Requests |-> NoRequest]
  /\ response = [r \in Requests |-> NoResponse]
  /\ engineCalls = {}
  /\ pure = NoPure

RouteNext ==
  \/ \E r \in Requests :
       \/ \E id \in FunctionIds \cup {BadId} : RunSelect(r, id)
       \/ RunContinue(r)
       \/ TestSelect(r)
       \/ TestContinue(r)
       \/ RunResponds(r)
       \/ \E id \in FunctionIds \cup {BadId}, caller \in Users \cup {Null} :
            FunctionsRunSelect(r, id, caller)
       \/ FunctionsRunContinue(r)
       \/ FunctionsRunResponds(r)
       \/ \E u \in Users, name \in FunctionNames \cup {""}, code \in DeployCodes :
            DeployInsert(r, u, name, code)
       \/ DeployInitializeQuota(r)
       \/ \E id \in FunctionIds, u \in Users, enabled \in BOOLEAN : StatusUpdate(r, id, u, enabled)
       \/ \E u \in Users : FunctionsList(r, u)
       \/ \E id \in FunctionIds \cup {BadId}, u \in Users : FunctionGet(r, id, u)
       \/ \E id \in FunctionIds, u \in Users : CodeUpdate(r, id, u)
       \/ \E id \in FunctionIds, u \in Users : FunctionDelete(r, id, u)
       \/ \E keyMatches \in BOOLEAN : AdminResetQuotas(r, keyMatches)
       \/ \E module \in SchemaModules : Restart(r, module)
  \/ Tick

RouteSpec == RouteInit /\ [][RouteNext]_vars

\* ------------------------------------------------------ process crash
\* The process stops while invocations are in flight and is started again:
\* the module state of executor.js is initialised anew (executor.js:9), the
\* workers, child processes, timers and object URLs of the old process are
\* gone, the locals of its invocations with them; the files on disk and
\* the tables stay, as createSchema of the database module leaves them. No
\* statement run at the start writes concurrent_count. The tables of the
\* control plane are not followed here.
Crash(module) ==
  /\ \E p \in Invocations : pc[p] \notin {"idle", "returned", "crashed"}
  /\ currentInstanceCount' = 0
  /\ otherInFlight' = 0
  /\ ownerInFlight' = 0
  /\ quotas' = createSchema(module).quotas
  /\ pc' = [p \in Invocations |->
             IF pc[p] \in {"idle", "returned"} THEN pc[p] ELSE "crashed"]
  /\ quota' = [p \in Invocations |-> NoRow]
  /\ result' = [p \in Invocations |-> NoResult]
  /\ pending' = [p \in Invocations |-> NoOutcome]
  /\ sandbox' = [p \in Invocations |-> IF sandbox[p] = "running" THEN "terminated" ELSE sandbox[p]]
  /\ timer' = [p \in Invocations |-> IF timer[p] = "armed" THEN "none" ELSE timer[p]]
  /\ workerUrl' = [p \in Invocations |-> FALSE]
  /\ UNCHANGED <<impl, cpuAtStart, controlPlane, capture, executions, userId, admitted, tempFile,
                 returned>>

CrashNext ==
  \/ Next
  \/ \E module \in SchemaModules : Crash(module)

CrashSpec == Init /\ [][CrashNext]_vars

\* ------------------------------------------- the capture of console.log
\* executor.js:145-199 followed on its own: what the promise executor does
\* to the host's console.log, and what reaches `output` before the worker's
\* message resolves the promise with it. The worker has a console of its
\* own: what the function prints does not pass through the host's
\* console.log. pc is "awaitResult" from the capture to the worker's
\* message, "returned" after it, "logged" once the request-logging
\* middleware has printed the request's line, "hung" when the deadline
\* timer terminated the worker.
notCaptured == <<impl, currentInstanceCount, quotas, executions, otherInFlight, ownerInFlight,
                 cpuAtStart, userId, quota, admitted, sandbox, timer, tempFile, workerUrl,
                 result, pending, returned, controlPlane>>

\* The invocations whose closures run when f is called with a line: the
\* closure of f appends to its output and calls its originalLog
\* (executor.js:190-193).
RECURSIVE Reached(_)
Reached(f) == IF f = 0 THEN {} ELSE {f} \cup Reached(originalLog[f])

\* console.log(line) is called in the host.
ConsoleLogCalled(line) ==
  workerOutput' = [p \in Invocations |->
                     IF p \in Reached(consoleLog) THEN workerOutput[p] \cup {line}
                     ELSE workerOutput[p]]

\* executor.js:188-198: originalLog = console.log, the closure installed,
\* the restore timer armed. The invocations are numbered in this order.
Capture(p) ==
  /\ pc[p] = "idle"
  /\ \A q \in Invocations : q < p => pc[q] # "idle"
  /\ originalLog' = [originalLog EXCEPT ![p] = consoleLog]
  /\ consoleLog' = p
  /\ restoreTimer' = [restoreTimer EXCEPT ![p] = "armed"]
  /\ pc' = [pc EXCEPT ![p] = "awaitResult"]
  /\ UNCHANGED <<notCaptured, workerOutput>>

\* executor.js:149-168: the worker's message resolves the promise with
\* `output` as it is at this moment.
WorkerMessage(p) ==
  /\ pc[p] = "awaitResult"
  /\ pc' = [pc EXCEPT ![p] = "returned"]
  /\ UNCHANGED <<notCaptured, capture>>

\* executor.js:140-142: the deadline timer terminates the worker; the
\* promise stays pending.
WorkerDeadline(p) ==
  /\ pc[p] = "awaitResult"
  /\ pc' = [pc EXCEPT ![p] = "hung"]
  /\ UNCHANGED <<notCaptured, capture>>

\* part_001:38-43: the request-logging middleware prints the line of the
\* request invocation p served, after its handler.
RequestLogged(p) ==
  /\ pc[p] = "returned"
  /\ pc' = [pc EXCEPT ![p] = "logged"]
  /\ ConsoleLogCalled(p)
  /\ UNCHANGED <<notCaptured, consoleLog, originalLog, restoreTimer>>

\* The host prints a line of its own (the line of a request that runs no
\* function, part_001:38-43).
HostLogs ==
  /\ consoleLog # 0
  /\ ConsoleLogCalled(0)
  /\ UNCHANGED <<notCaptured, pc, consoleLog, originalLog, restoreTimer>>

\* executor.js:196-198: the restore timer fires, 100 ms after the deadline:
\* console.log = originalLog. Timers of equal delay fire in the order they
\* were armed.
RestoreTimerFires(p) ==
  /\ restoreTimer[p] = "armed"
  /\ pc[p] # "awaitResult"
  /\ \A q \in Invocations : q < p => restoreTimer[q] = "fired"
  /\ consoleLog' = originalLog[p]
  /\ restoreTimer' = [restoreTimer EXCEPT ![p] = "fired"]
  /\ UNCHANGED <<notCaptured, pc, originalLog, workerOutput>>

ConsoleInit == EngineStopped /\ ControlPlaneIdle

ConsoleNext ==
  \/ \E p \in Invocations :
       \/ Capture(p)
       \/ WorkerMessage(p)
       \/ WorkerDeadline(p)
       \/ RequestLogged(p)
       \/ RestoreTimerFires(p)
  \/ HostLogs

ConsoleSpec == ConsoleInit /\ [][ConsoleNext]_vars

\* ================================================== functions of values
\* What a sandbox can print: texts that are no JSON, of lengths around the
\* limits; JSON that is no object; objects with and without a status, with a
\* status of each type and on both sides of 100 and 599, and a body that is
\* absent, short, or longer than the output limit.
EnvelopeStatuses ==
  { StatusAbsent, StatusString,
    StatusNumber(200, TRUE), StatusNumber(100, TRUE), StatusNumber(599, TRUE),
    StatusNumber(99, TRUE), StatusNumber(600, TRUE), StatusNumber(200, FALSE) }
EnvelopeBodies == {BodyAbsent, BodyString(5, FALSE), BodyString(2 * OutputSizeLimit, FALSE)}
SandboxOutputs ==
  {Str(n, NotJson) : n \in {0, 11, OutputSizeLimit, OutputSizeLimit + 1, 1024 * 1024, 1024 * 1024 + 1}}
    \cup {Str(4, JsonNull), Str(2, JsonNumber)}
    \cup {Str(b.length + 40, JsonObject(s, b)) : s \in EnvelopeStatuses, b \in EnvelopeBodies}
SandboxResults ==
  {RouteResult("success", o, JsNull) : o \in SandboxOutputs}
    \cup {RouteResult("error", JsNull, Str(4, NotJson))}
\* What a client can send as code.
Codes ==
  {JsUndefined, JsNull, JsNumber}
    \cup {Str(n, NotJson) : n \in {0, 1, CodeSizeLimit, CodeSizeLimit + 1, 1024 * 1024, 1024 * 1024 + 1}}

FormatInit ==
  /\ EngineStopped
  /\ functions = [f \in FunctionIds |-> NoFunction]
  /\ last_reset_at = [u \in Users |-> Null]
  /\ clock = 0
  /\ request = [r \in Requests |-> NoRequest]
  /\ response = [r \in Requests |-> NoResponse]
  /\ engineCalls = {}
  /\ \E res \in SandboxResults, code \in Codes :
       pure = [NoPure EXCEPT !.result = res, !.code = code]

Apply(fn, out) ==
  /\ pure.fn = "none"
  /\ pure' = [pure EXCEPT !.fn = fn, !.out = out]
  /\ UNCHANGED <<engine, quotas, functions, last_reset_at, clock, request, response, engineCalls>>

ApplyValidateCode == Apply("validateCode", validateCode(pure.code))
ApplySanitizeOutput == Apply("sanitizeOutput", sanitizeOutput(pure.result.output))
ApplyRunResponse == Apply("RunResponse", RunResponse(pure.result))

FormatNext == ApplyValidateCode \/ ApplySanitizeOutput \/ ApplyRunResponse

FormatSpec == FormatInit /\ [][FormatNext]_vars

\* ================================================================ claims
Returned(p) == pc[p] = "returned"
InFlight(p) == pc[p] \notin {"idle", "returned"}
\* p is the only invocation that was called so far.
Alone(p) == \A q \in Invocations \ {p} : pc[q] = "idle"
\* The sandboxes of user u that are running.
RunningSandboxes(u) ==
  (IF u = Owner THEN ownerInFlight ELSE 0)
    + Cardinality({p \in Invocations : userId[p] = u /\ sandbox[p] = "running"})
\* The execution-log rows of invocation p.
RowsOf(p) ==
  LET rows == {r \in BagToSet(executions) : r.inv = p}
      RECURSIVE Sum(_)
      Sum(S) == IF S = {} THEN 0
                ELSE LET r == CHOOSE x \in S : TRUE
                     IN CopiesIn(r, executions) + Sum(S \ {r})
  IN Sum(rows)
\* The invocation ended with an Error thrown by a collaborator (database,
\* temp file, sandbox creation).
InfrastructureFailure(p) == returned[p].message \in {MsgDb, MsgSpawn, MsgTempFile}

\* C1: the machine instance counter never exceeds MAX_INSTANCES_PER_MACHINE.
C1_MachineCounterBounded == currentInstanceCount <= MAX_INSTANCES_PER_MACHINE

\* C2: no user ever has more than MAX_CONCURRENT_EXECUTIONS sandboxes
\* running at the same time.
C2_UserConcurrencyBounded ==
  \A u \in Users : RunningSandboxes(u) <= MAX_CONCURRENT_EXECUTIONS

\* C3: once every invocation that was called has returned, the machine
\* instance counter is back at the number of invocations still in flight
\* (those of the initial state): each invocation gave back what it took.
C3_CounterRestored ==
  (\A p \in Invocations : ~InFlight(p))
    => currentInstanceCount = otherInFlight + ownerInFlight

\* C4: after an admitted invocation that ran with no other invocation of
\* its owner in flight, the owner's concurrent_count has the value it had
\* before (0, the row's value in the initial state with nothing in flight).
C4_ConcurrentCountRestored ==
  \A p \in Invocations :
    (Returned(p) /\ admitted[p] /\ Alone(p) /\ ownerInFlight = 0 /\ ~InfrastructureFailure(p))
      => quotas[userId[p]].concurrent_count = 0

\* C5: every call of executeFunction eventually returns to its caller.
C5_EveryCallReturns ==
  \A p \in Invocations : InFlight(p) ~> Returned(p)

\* C6: a terminated invocation has exactly one execution-log row if it was
\* admitted (on the success, user-code failure, timeout and CPU-budget
\* paths) and none if it was rejected at admission.
C6_OneLogRowPerAdmitted ==
  \A p \in Invocations :
    (Returned(p) /\ ~InfrastructureFailure(p))
      => RowsOf(p) = (IF admitted[p] THEN 1 ELSE 0)

\* C7: a returned result with status success has a non-null output and a
\* null error; one with status error has a null output and a non-null error.
C7_ResultShape ==
  \A p \in Invocations :
    Returned(p) =>
      LET r == returned[p].value
      IN /\ r.status = "success" => (~IsNullish(r.output) /\ IsNullish(r.error))
         /\ r.status = "error" => (IsNullish(r.output) /\ ~IsNullish(r.error))

\* C8: no step of an invocation that is not admitted changes the machine
\* counter, a quota row, the execution log or creates a sandbox, and an
\* admission rejection returns status error with executionTimeMs 0.
C8_RejectionChangesNothing ==
  [][\A p \in Invocations :
       /\ (pc'[p] # pc[p] /\ ~admitted'[p])
            => /\ UNCHANGED <<currentInstanceCount, quotas, executions>>
               /\ sandbox'[p] = "none"
       /\ (pc'[p] # pc[p] /\ Returned(p)' /\ returned'[p].value.error \in RejectionMessages)
            => /\ ~admitted'[p]
               /\ returned'[p].kind = "return"
               /\ returned'[p].value.status = "error"
               /\ returned'[p].value.executionTimeMs = 0]_vars

\* C8 witness: an invocation was rejected for the per-user concurrency limit.
C8_Witness ==
  \E p \in Invocations :
    Returned(p) /\ returned[p].value.error = MsgUserLimit /\ ~admitted[p]

\* C9: when a database statement fails after the machine slot was taken, the
\* invocation returns status error and both slots are free again: the
\* counter and the owner's concurrent_count are at their values from before.
C9_SlotsReleasedOnFailure ==
  \A p \in Invocations :
    (Returned(p) /\ admitted[p] /\ returned[p].message = MsgDb /\ Alone(p))
      => /\ returned[p].value.status = "error"
         /\ currentInstanceCount = otherInFlight + ownerInFlight
         /\ quotas[userId[p]].concurrent_count = ownerInFlight

\* C10: the promise of executeFunction never rejects, and when a collaborator
\* threw, the caller receives status error with a non-null error message.
C10_NeverThrows ==
  \A p \in Invocations :
    Returned(p) =>
      /\ returned[p].kind = "return"
      /\ returned[p].message # "" =>
           /\ returned[p].value.status = "error"
           /\ ~IsNullish(returned[p].value.error)

\* C10 witness: a database failure after admission came back as a result.
C10_Witness ==
  \E p \in Invocations :
    Returned(p) /\ admitted[p] /\ returned[p].message = MsgDb

\* C11: when the sandbox run succeeded and only the INSERT of the execution
\* log fails, the caller still receives status success with the sandbox's
\* output and the measured elapsed time (what the step that leaves the log
\* write hands on is the result computed before it).
C11_LogFailureKeepsSuccess ==
  [][\A p \in Invocations :
       (/\ pc[p] = "logExecution"
        /\ pc'[p] # pc[p]
        /\ executions' = executions
        /\ result[p].status = "success")
         => LET out == IF Returned(p)' THEN returned'[p] ELSE Caught(pending'[p])
            IN out.value = result[p]]_vars

\* C12: an invocation refused by the CPU-budget check after its run returns
\* status error with the CPU-quota message, and its elapsed time is billed:
\* when it was the only invocation called, cpu_time_used_ms has grown by
\* exactly the measured elapsed time.
C12_CpuTripBilled ==
  \A p \in Invocations :
    (Returned(p) /\ Alone(p) /\ returned[p].value.error = MsgWouldExceed)
      => /\ returned[p].value.status = "error"
         /\ returned[p].value.executionTimeMs \in ElapsedValues
         /\ quotas[userId[p]].cpu_time_used_ms
              = cpuAtStart + returned[p].value.executionTimeMs

\* C13: an invocation that returned after its deadline timer fired has
\* status error, the message "Execution timeout: exceeded 15 second limit"
\* and an executionTimeMs of at least 15000 and at most 15500.
C13_TimeoutResult ==
  \A p \in Invocations :
    (Returned(p) /\ timer[p] = "fired")
      => /\ returned[p].value.status = "error"
         /\ returned[p].value.error = MsgTimeout
         /\ returned[p].value.executionTimeMs >= MAX_EXECUTION_TIME_MS
         /\ returned[p].value.executionTimeMs <= MAX_EXECUTION_TIME_MS + 500

\* C14: when an invocation has returned after its deadline timer fired, its
\* sandbox was terminated and its handle closed: it is not running any more.
C14_NoSandboxOutlivesTimeout ==
  \A p \in Invocations :
    (Returned(p) /\ timer[p] = "fired") => sandbox[p] \in {"terminated", "closed"}

\* C15: with the machine counter at MAX_INSTANCES_PER_MACHINE - 1 before
\* them, no two invocations are admitted and in flight at the same time: the
\* first one admitted takes the last slot and every invocation concurrent
\* with it is rejected.
C15_LastSlotTakenOnce ==
  \A p, q \in Invocations :
    (/\ otherInFlight + ownerInFlight = MAX_INSTANCES_PER_MACHINE - 1
     /\ admitted[p] /\ InFlight(p)
     /\ admitted[q] /\ InFlight(q))
      => p = q

\* The error texts a sandbox reports: the worker's error message or error
\* event, the stderr of a child process that exited with failure.
SandboxErrorTexts ==
  {d.error : d \in {m \in WorkerMessages \cup WorkerErrors : m.status = "error"}}
    \cup {e.stderr : e \in {x \in ProcessExits : ~x.success}}
\* The run of p ended with the sandbox reporting failure: p was admitted, no
\* collaborator threw, the deadline did not fire and the CPU-budget check
\* did not replace the outcome.
SandboxFailed(p) ==
  /\ Returned(p) /\ admitted[p]
  /\ returned[p].message = ""
  /\ returned[p].value.status = "error"
  /\ returned[p].value.error # MsgWouldExceed

\* C16: when the sandbox reported failure, executeFunction returns status
\* error with the sandbox's error text, exactly one log row of the
\* invocation exists and it has status "error", that text and the elapsed
\* time, and the quota was settled as for a successful run: the elapsed time
\* is billed (seen on cpu_time_used_ms when no other invocation was called).
C16_SandboxFailureSettled ==
  \A p \in Invocations :
    SandboxFailed(p) =>
      LET r == returned[p].value
      IN /\ r.error \in SandboxErrorTexts
         /\ r.executionTimeMs \in ElapsedValues
         /\ RowsOf(p) = 1
         /\ CopiesIn([inv |-> p, user_id |-> userId[p], status |-> "error", output |-> Null,
                      error |-> r.error, execution_time_ms |-> r.executionTimeMs],
                     executions) = 1
         /\ Alone(p) => quotas[userId[p]].cpu_time_used_ms = cpuAtStart + r.executionTimeMs

\* C16 witness: a sandbox failure with the text "boom" and 2000 ms elapsed
\* came back to the caller and was billed.
C16_Witness ==
  \E p \in Invocations :
    /\ SandboxFailed(p) /\ Alone(p)
    /\ returned[p].value.error = "boom"
    /\ returned[p].value.executionTimeMs = 2000
    /\ quotas[Owner].cpu_time_used_ms = cpuAtStart + 2000

\* C17: every quota row has concurrent_count >= 0 and cpu_time_used_ms >= 0
\* in every reachable state.
C17_QuotaRowNonNegative ==
  \A u \in Users :
    quotas[u].present => (quotas[u].concurrent_count >= 0 /\ quotas[u].cpu_time_used_ms >= 0)

\* C18: a stored concurrent_count never exceeds MAX_CONCURRENT_EXECUTIONS
\* (every initial row holds at most that).
C18_StoredCountBounded ==
  \A u \in Users : quotas[u].present => quotas[u].concurrent_count <= MAX_CONCURRENT_EXECUTIONS

\* C18 witness: with 9 invocations of the owner in flight one more was
\* admitted and its UPDATE stored concurrent_count = 10.
C18_Witness ==
  \E p \in Invocations :
    /\ admitted[p] /\ pc[p] \notin {"admission", "updateQuotaAdmit"}
    /\ ownerInFlight = MAX_CONCURRENT_EXECUTIONS - 1
    /\ quotas[userId[p]].concurrent_count = MAX_CONCURRENT_EXECUTIONS

\* The invocation completed: admitted, run and settled with no Error thrown
\* and without the CPU-budget check refusing it.
Completed(p) ==
  /\ Returned(p) /\ admitted[p]
  /\ returned[p].message = ""
  /\ returned[p].value.error # MsgWouldExceed
\* The sum of the elapsed times returned by the invocations in S.
RECURSIVE ElapsedSum(_)
ElapsedSum(S) ==
  IF S = {} THEN 0
  ELSE LET p == CHOOSE x \in S : TRUE
       IN returned[p].value.executionTimeMs + ElapsedSum(S \ {p})

\* C19: when the invocations that were called (all for the same owner) were
\* all admitted and have all completed without the CPU-budget check
\* refusing one, the owner's cpu_time_used_ms is its initial value plus the
\* sum of their elapsed times, whatever the interleaving was.
C19_CpuTimeIsSumOfElapsed ==
  (\A p \in Invocations : pc[p] = "idle" \/ Completed(p))
    => quotas[Owner].cpu_time_used_ms
         = cpuAtStart + ElapsedSum({p \in Invocations : Returned(p)})

\* C19 witness: two invocations of the owner completed with 5 ms and
\* 2000 ms and overlapped (run one after the other from concurrent_count 0
\* they leave -2 in the row).
C19_Witness ==
  /\ \A p \in Invocations : Completed(p)
  /\ {returned[p].value.executionTimeMs : p \in Invocations} = {5, 2000}
  /\ ownerInFlight = 0
  /\ quotas[Owner].concurrent_count > 0 - NumInvocations
  /\ quotas[Owner].cpu_time_used_ms = cpuAtStart + 2005

\* C20: no step decreases a cpu_time_used_ms: every step of executeFunction
\* leaves it unchanged or increases it.
C20_CpuTimeNeverDecreases ==
  [][\A u \in Users : quotas'[u].cpu_time_used_ms >= quotas[u].cpu_time_used_ms]_vars

\* C20 witness: a settlement has increased the owner's cpu_time_used_ms.
C20_Witness ==
  \E p \in Invocations :
    pc[p] = "logExecution" /\ quotas[Owner].cpu_time_used_ms > cpuAtStart

\* C21: every call of executeFunction a route makes (GET /run/:id,
\* POST /functions/:id/run, GET /test) is for a function whose row the
\* handler read with enabled = true: a disabled function is refused before
\* the engine is invoked.
C21_OnlyEnabledFunctionsRun ==
  \A c \in engineCalls : c.enabledRead

\* C22: the slots of an admitted invocation are released exactly once: no
\* step of the invocation (followed alone) takes more than one off the
\* machine counter or off its owner's concurrent_count, and when it returns
\* (no collaborator having thrown) both are back at the values of the
\* invocations still in flight.
C22_ReleasedExactlyOnce ==
  [][\A p \in Invocations :
       (Alone(p) /\ admitted[p] /\ pc'[p] # pc[p])
         => /\ currentInstanceCount' >= currentInstanceCount - 1
            /\ quotas'[userId[p]].concurrent_count
                 >= quotas[userId[p]].concurrent_count - 1
            /\ (Returned(p)' /\ ~InfrastructureFailure(p)')
                 => /\ currentInstanceCount' = otherInFlight + ownerInFlight
                    /\ quotas'[userId[p]].concurrent_count = ownerInFlight]_vars

\* C23: initializeQuota is idempotent: the step of POST /deploy that runs it
\* creates the row with cpu_time_used_ms = 0 and concurrent_count = 0 for a
\* user that has none, and leaves cpu_time_used_ms, concurrent_count and
\* last_reset_at of an existing row as they are; other users' rows are not
\* touched.
C23_InitializeQuotaIdempotent ==
  [][\A r \in Requests :
       (request[r].pc = "initializeQuota" /\ request'[r].pc = "done")
         => LET u == request[r].user
            IN /\ quotas[u].present
                    => (quotas'[u] = quotas[u] /\ last_reset_at'[u] = last_reset_at[u])
               /\ ~quotas[u].present
                    => (quotas'[u] = Row(0, 0) /\ last_reset_at'[u] = clock)
               /\ \A v \in Users \ {u} :
                    quotas'[v] = quotas[v] /\ last_reset_at'[v] = last_reset_at[v]]_vars

\* C23 witness: a further /deploy of an owner whose row had been charged
\* and was created earlier answered 201, and the row is as it was.
C23_Witness ==
  \E r \in Requests :
    /\ request[r].route = "deploy" /\ request[r].pc = "done"
    /\ response[r].status = HttpStatus(201)
    /\ quotas[request[r].user].cpu_time_used_ms > 0
    /\ last_reset_at[request[r].user] = 0
    /\ clock > 0

\* The output of a successful run is a well-formed envelope: it parses as a
\* JSON object whose status is an integer between 100 and 599.
WellFormedEnvelope(res) ==
  LET httpResponse == res.output.parsed
  IN /\ res.status = "success" /\ ~Falsy(res.output)
     /\ httpResponse.kind = "object"
     /\ httpResponse.status.type = "number"
     /\ httpResponse.status.integer
     /\ httpResponse.status.value >= 100 /\ httpResponse.status.value <= 599

\* C24: the response of GET /run/:id is made in envelope mode (status, body
\* forwarded) exactly when the output is a well-formed envelope, and in
\* raw-output mode in every other case.
C24_EnvelopeOnlyIfWellFormed ==
  pure.fn = "RunResponse"
    => /\ pure.out.mode = (IF WellFormedEnvelope(pure.result) THEN "envelope" ELSE "raw")
       /\ pure.out.mode = "envelope"
            => pure.out.status = pure.result.output.parsed.status

\* The textual payload a response was made from: the body of the envelope,
\* the output otherwise.
PayloadLength(res, resp) ==
  IF resp.mode = "envelope" THEN res.output.parsed.body.length ELSE res.output.length

\* C25: a textual payload of a response to a sandbox run is at most
\* OutputSizeLimit long plus the truncation marker, in raw-output mode and
\* in envelope mode: one longer than the limit is cut to the limit with the
\* marker appended, one within the limit goes out unchanged.
C25_PayloadTruncated ==
  (pure.fn = "RunResponse" /\ pure.out.body.type = "string")
    => LET n == PayloadLength(pure.result, pure.out)
       IN /\ pure.out.body.length <= OutputSizeLimit + TruncationMarkerLength
          /\ n > OutputSizeLimit
               => (pure.out.body.marker
                   /\ pure.out.body.length = OutputSizeLimit + TruncationMarkerLength)
          /\ n <= OutputSizeLimit
               => (~pure.out.body.marker /\ pure.out.body.length = n)

\* C26 (as the code has it): validateCode accepts a string of exactly
\* CodeSizeLimit = 1,000,000 characters and rejects one of 1,000,001; every
\* non-empty string of at most 1,000,000 characters is accepted, every longer
\* one and everything that is no non-empty string is rejected.
C26_CodeSizeBoundary ==
  pure.fn = "validateCode"
    => pure.out.valid = (/\ pure.code.type = "string"
                         /\ pure.code.length >= 1
                         /\ pure.code.length <= CodeSizeLimit)

\* C26 witness: a code of exactly 1,000,000 characters was accepted.
C26_Witness ==
  /\ pure.fn = "validateCode"
  /\ pure.code.type = "string" /\ pure.code.length = CodeSizeLimit
  /\ pure.out.valid

\* C26 as stated: validateCode accepts every non-empty string of at most
\* 1 MiB = 1,048,576 characters and rejects one of 1 MiB + 1.
C26_MiBBoundary ==
  (pure.fn = "validateCode" /\ pure.code.type = "string" /\ pure.code.length >= 1)
    => pure.out.valid = (pure.code.length <= 1024 * 1024)

\* Invocation p returns the rejection msg, with no slot taken.
RejectedWith(p, msg) ==
  /\ Returned(p)
  /\ returned[p] = Return(ErrorResult(msg, 0))
  /\ ~admitted[p]

\* C27: admission evaluates its checks in a fixed order and rejects with the
\* first one that fails: the machine counter >= 50 when executeFunction is
\* called, then on the row read: no row, concurrent_count >= 10,
\* cpu_time_used_ms >= MAX_CPU_TIME_MS. The invocation is admitted exactly
\* when none of them fails (MAX - 1 is admitted, MAX is rejected).
C27_AdmissionOrder ==
  [][\A p \in Invocations :
       /\ (pc[p] = "idle" /\ pc'[p] # "idle")
            => IF currentInstanceCount >= MAX_INSTANCES_PER_MACHINE
               THEN RejectedWith(p, MsgCapacity)'
               ELSE pc'[p] = "getQuota"
       /\ (pc[p] = "admission" /\ pc'[p] # "admission")
            => LET q == quota[p]
               IN CASE ~q.present -> RejectedWith(p, MsgNoQuota)'
                    [] q.present /\ q.concurrent_count >= MAX_CONCURRENT_EXECUTIONS
                         -> RejectedWith(p, MsgUserLimit)'
                    [] q.present /\ q.concurrent_count < MAX_CONCURRENT_EXECUTIONS
                                 /\ q.cpu_time_used_ms >= MAX_CPU_TIME_MS
                         -> RejectedWith(p, MsgCpuExceeded)'
                    [] OTHER -> admitted'[p] /\ pc'[p] = "updateQuotaAdmit"
       /\ (~admitted[p] /\ admitted'[p]) => pc[p] = "admission"
  ]_vars

\* C27 witness: a row that fails both user checks was rejected with the
\* concurrency limit, the earlier of the two.
C27_Witness ==
  \E p \in Invocations :
    /\ RejectedWith(p, MsgUserLimit)
    /\ userId[p] = Owner
    /\ cpuAtStart >= MAX_CPU_TIME_MS
    /\ quotas[Owner].concurrent_count >= MAX_CONCURRENT_EXECUTIONS

\* Invocation p stands after its two reservations and before its sandbox.
Reserved(p) == admitted[p] /\ pc[p] \in {"startSandbox", "makeTempFile", "writeTextFile"}

\* C28: within one invocation no sandbox is created before both reservations
\* were made: the machine counter was incremented (admitted) and the UPDATE
\* of the owner's concurrent_count has executed; an invocation that was
\* rejected or whose UPDATE failed never has a sandbox.
C28_NoSandboxBeforeReservations ==
  [][\A p \in Invocations :
       /\ (sandbox[p] = "none" /\ sandbox'[p] # "none")
            => Reserved(p) /\ pc[p] # "makeTempFile"
       /\ (~Reserved(p) /\ Reserved(p)')
            => /\ pc[p] = "updateQuotaAdmit"
               /\ admitted[p]
               /\ quotas' = updateQuota(userId[p], 0, quota[p].concurrent_count + 1)
               /\ quotas'[userId[p]].concurrent_count = quota[p].concurrent_count + 1
       /\ (pc[p] \in {"idle", "getQuota", "admission", "updateQuotaAdmit"}
             /\ Returned(p)')
            => sandbox'[p] = "none"
       /\ (Returned(p) /\ sandbox[p] = "none") => sandbox'[p] = "none"
  ]_vars

\* C28 witness: a sandbox runs, and the row holds the reservation its
\* invocation made.
C28_Witness ==
  \E p \in Invocations :
    /\ sandbox[p] = "running"
    /\ admitted[p]
    /\ currentInstanceCount = otherInFlight + ownerInFlight + 1
    /\ quotas[userId[p]].concurrent_count = quota[p].concurrent_count + 1

\* C29: every scratch resource created for an invocation (the temp file of
\* the subprocess executor, the object URL of the worker executor) is
\* disposed of by the time the invocation returns, on every exit path: the
\* object URL is revoked, the removal of the temp file was attempted; and a
\* failure of the removal does not change what the invocation returns.
C29_ScratchDisposed ==
  [][\A p \in Invocations :
       (~Returned(p) /\ Returned(p)')
         => /\ ~workerUrl'[p]
            /\ tempFile[p] => pc[p] = "removeTempFile"
            /\ pc[p] = "removeTempFile" => returned'[p] = Caught(pending[p])
  ]_vars

\* C30: on the public execution routes (GET /run/:id, GET /test)
\* executeFunction is called with userId equal to the user_id stored on the
\* row of the function executed: the author's quota is the one checked and
\* charged.
C30_AuthorIsCharged ==
  \A c \in engineCalls :
    c.route \in {"run", "test"}
      => c.userId = c.author

\* C30 witness: GET /run/:id has called executeFunction for a function
\* deployed by another user than the one the test function belongs to.
C30_Witness ==
  \E c \in engineCalls :
    /\ c.route = "run"
    /\ c.author = Stranger
    /\ c.userId = Stranger
    /\ functions[c.functionId].user_id = Stranger

\* POST /admin/reset-quotas has run its UPDATE in this step for request r.
ResetStep(r) ==
  /\ request[r].pc = "idle"
  /\ request'[r].route = "resetQuotas"
  /\ response'[r].status = HttpStatus(200)

\* C31: resetDailyQuotas sets cpu_time_used_ms to 0 and last_reset_at to the
\* current time for exactly the quota rows whose last_reset_at is older than
\* 24 hours; every other row stays as it is, no row is created, and no
\* row's concurrent_count changes.
C31_ResetOnlyOldRows ==
  [][\A r \in Requests :
       ResetStep(r)
         => \A u \in Users :
              IF quotas[u].present /\ clock - last_reset_at[u] > ResetInterval
              THEN /\ quotas'[u].present
                   /\ quotas'[u].cpu_time_used_ms = 0
                   /\ quotas'[u].concurrent_count = quotas[u].concurrent_count
                   /\ last_reset_at'[u] = clock
              ELSE quotas'[u] = quotas[u] /\ last_reset_at'[u] = last_reset_at[u]
  ]_vars

\* C31 witness: a reset has run when Owner's row was two days old and
\* Stranger's row one day old: the first is reset, the second is not.
C31_Witness ==
  /\ \E r \in Requests : request[r].route = "resetQuotas" /\ response[r].status = HttpStatus(200)
  /\ clock = 2
  /\ quotas[Owner].present /\ last_reset_at[Owner] = 2 /\ quotas[Owner].cpu_time_used_ms = 0
  /\ quotas[Stranger].present /\ last_reset_at[Stranger] = 1

\* C32: a restart of the control plane (initDatabase, createSchema)
\* preserves the stored data: every function row, quota row and
\* execution-log row is after the restart what it was before.
C32_RestartPreservesData ==
  [][\A r \in Requests :
       (request[r].pc = "idle" /\ request'[r].route = "restart")
         => /\ functions' = functions
            /\ quotas' = quotas
            /\ last_reset_at' = last_reset_at
            /\ executions' = executions
  ]_vars

\* C33: admission is consistent across a crash: when the process has
\* stopped with invocations in flight and was started again (machine
\* counter 0, no sandbox running), every owner's stored concurrent_count is
\* the number of that owner's invocations in flight, 0.
C33_CrashReleasesSlots ==
  [][(\E p \in Invocations : pc[p] # "crashed" /\ pc'[p] = "crashed")
       => /\ currentInstanceCount' = 0
          /\ \A p \in Invocations : sandbox'[p] # "running"
          /\ \A u \in Users : quotas'[u].concurrent_count = 0
  ]_vars

\* C34: the CPU-budget check after the run protects the budget under
\* concurrency: whenever an invocation with a success result bills its
\* elapsed time, the owner's stored cpu_time_used_ms after the UPDATE is at
\* most MAX_CPU_TIME_MS, in every interleaving.
C34_BudgetNeverExceeded ==
  [][\A p \in Invocations :
       (/\ pc[p] = "updateQuotaSettle" /\ pc'[p] = "logExecution"
        /\ result[p].status = "success")
         => quotas'[userId[p]].cpu_time_used_ms <= MAX_CPU_TIME_MS
  ]_vars

\* C35: the console.log the worker executor replaces is always restored:
\* once every invocation that was called has returned and every restore
\* timer has fired, console.log is the original function and no closure of
\* an invocation is installed.
C35_ConsoleLogRestored ==
  (/\ \A p \in Invocations : pc[p] \in {"idle", "returned", "logged"}
   /\ \A p \in Invocations : restoreTimer[p] # "armed")
    => consoleLog = 0

\* C36: the output of an invocation depends only on that invocation: when
\* the worker's message resolves the promise, `output` holds no line the
\* host printed for itself or on behalf of another invocation.
C36_OutputIsOwn ==
  [][\A p \in Invocations :
       (pc[p] = "awaitResult" /\ pc'[p] = "returned")
         => workerOutput[p] \subseteq {p}
  ]_vars

\* The routes that call a function store operation with the caller's id.
StoreRoutes == {"get", "list", "code", "status", "delete"}

\* C37: the function store operations that take a user id (getFunction,
\* listFunctions, updateFunctionCode, updateFunctionStatus, deleteFunction)
\* never return, modify or delete a function of another user: called for a
\* function whose user_id differs from the id passed in they return no
\* row and leave the table as it is.
C37_OnlyOwnFunctions ==
  [][\A r \in Requests :
       (request[r].pc = "idle" /\ request'[r].route \in StoreRoutes)
         => LET u == request'[r].user
                id == request'[r].id
            IN /\ \A f \in FunctionIds :
                    (functions[f].present /\ functions[f].user_id # u)
                      => functions'[f] = functions[f]
               /\ \A row \in response'[r].rows : row.present /\ row.user_id = u
               /\ (id \in FunctionIds /\ functions[id].present /\ functions[id].user_id # u)
                    => functions' = functions /\ response'[r].rows = {}
  ]_vars

\* C37 witness: DELETE /functions/:id was called by a user for a function
\* of another user and answered; the function is still stored.
C37_Witness ==
  \E r \in Requests :
    /\ request[r].route = "delete" /\ request[r].pc = "done"
    /\ request[r].user = Stranger
    /\ functions[request[r].id].present
    /\ functions[request[r].id].user_id = Owner
====
